---- MODULE Spec2Model ----
(***************************************************************************)
(* Admission control and fan-out of the 9S public tier.                    *)
(*                                                                         *)
(* Two programs are modelled, each a single-threaded asyncio process:      *)
(*   9s_public_node.py     one PublicNodeService serving connections       *)
(*   9s_public_control.py  a PublicControlPlane with a registry of         *)
(*                         PublicControlNode objects and broadcasts        *)
(* An action is the code a coroutine runs between two suspension points    *)
(* (the await of asyncio.sleep, the await of websocket.send, the wait for  *)
(* the next inbound message); nothing else interleaves.                    *)
(***************************************************************************)
EXTENDS Integers, Sequences, FiniteSets, TLC

(* ---- bounds ---------------------------------------------------------- *)
\* PublicNodeConfig.max_slots / PublicTierConfig.max_slots, 400 in the
\* source, scaled so that a node at capacity is reachable with few
\* concurrent callers.
MaxSlots == 1
\* max_mirrors is 3 in the source, scaled.
MaxMirrors == 1
\* register_node's cap is 100 in the source, scaled.
MaxNodes == 2
\* number of PublicControlNode objects ever constructed
MaxObjs == 3
\* number of broadcast_command calls
MaxBroadcasts == 2
\* number of connections accepted by the node service
MaxConns == 2
\* number of inbound messages the node service receives, all connections
\* together
MaxMsgs == 2
\* message_log cap, 1000 in the source (and 500 kept), scaled.
LogCap == 4

(* ---- values ---------------------------------------------------------- *)
None == "None"
allowed_models == {"logos9.5"}
Models == {"logos9.5", "other"}
Actions == {"process", "mirror"}
Commands == {[action |-> "process", model |-> "logos9.5"],
             [action |-> "mirror", model |-> "logos9.5"],
             [action |-> "process", model |-> "other"]}
NodeIds == <<"PUBLIC-001", "PUBLIC-002", "PUBLIC-003">>
ServiceObj == 1
ServiceId == "PUBLIC-001"
Broadcasts == 1..MaxBroadcasts
Conns == 1..MaxConns
WorkError == "work failed"
LimitError == "Public tier limit exceeded"

VARIABLES
    program,        \* which script runs: "node" or "control"
    node_id,        \* object -> its node_id
    active_slots,   \* object -> active_slots
    mirror_count,   \* object -> mirror_count
    max_slots,      \* object -> config.max_slots
    nodes,          \* PublicControlPlane.nodes, in insertion order
    command_log,    \* PublicControlPlane.command_log
    reg_ret,        \* <<what the last register_node call returned>>
    bc,             \* broadcast_command coroutines
    message_log,    \* PublicNodeService.message_log
    connections,    \* PublicNodeService.connections
    conn            \* handle_connection coroutines

vars == <<program, node_id, active_slots, mirror_count, max_slots, nodes,
          command_log, reg_ret, bc, message_log, connections, conn>>

objvars == <<node_id, active_slots, mirror_count, max_slots>>
planevars == <<nodes, command_log, reg_ret, bc>>
servicevars == <<message_log, connections, conn>>

Objs == DOMAIN active_slots

(* ---- results ---------------------------------------------------------- *)
\* A result dictionary; a key the dictionary lacks is None (-1 for the
\* integer keys).
SuccessResult(nid, action, used, maxs) ==
    [node |-> nid, tier |-> "PUBLIC", error |-> None, result |-> action,
     slots_used |-> used, max_slots |-> maxs]

ErrorResult(nid, msg) ==
    [node |-> nid, tier |-> "PUBLIC", error |-> msg, result |-> None,
     slots_used |-> -1, max_slots |-> -1]

\* the error_response of handle_connection has no "tier" key
ErrorResponse(nid, msg) ==
    [node |-> nid, tier |-> None, error |-> msg, result |-> None,
     slots_used |-> -1, max_slots |-> -1]

(* ---- admission -------------------------------------------------------- *)
\* can_process admitting at active_slots = max_slots
can_process_off_by_one(command, active, mirrors, maxs) ==
    IF command.model \notin allowed_models THEN FALSE
    ELSE IF active > maxs THEN FALSE
    ELSE IF command.action = "mirror" /\ mirrors >= MaxMirrors THEN FALSE
    ELSE TRUE

\* can_process without the model restriction
can_process_any_model(command, active, mirrors, maxs) ==
    IF active >= maxs THEN FALSE
    ELSE IF command.action = "mirror" /\ mirrors >= MaxMirrors THEN FALSE
    ELSE TRUE

\* can_process with the mirror comparison turned round
can_process_mirror_flipped(command, active, mirrors, maxs) ==
    IF command.model \notin allowed_models THEN FALSE
    ELSE IF active >= maxs THEN FALSE
    ELSE IF command.action = "mirror" /\ mirrors <= MaxMirrors THEN FALSE
    ELSE TRUE

can_process(command, active, mirrors, maxs) ==
    IF command.model \notin allowed_models THEN FALSE
    ELSE IF active >= maxs THEN FALSE
    ELSE IF command.action = "mirror" /\ mirrors >= MaxMirrors THEN FALSE
    ELSE TRUE

(* ---- control plane ---------------------------------------------------- *)
NoCommand == [action |-> None, model |-> None]

\* A broadcast_command coroutine: its program counter, its argument, the
\* dictionary iterator (the size it expects and the index of the entry it
\* is at), the node object it awaits, its result list and the exception it
\* ended with.  before and others are history: active_slots of the awaited
\* node as it was when process_command was called, and the number of units
\* of work then in flight on it.
IdleBc == [pc |-> "idle", command |-> NoCommand, used |-> 0, pos |-> 0,
           obj |-> 0, results |-> <<>>, exc |-> None,
           before |-> 0, others |-> 0]

RegisteredIds == {nodes[i].id : i \in 1..Len(nodes)}
RegisteredObjs == {nodes[i].obj : i \in 1..Len(nodes)}

\* an assignment that adds an entry even when the key is there
DictSet_always_append(d, nid, o) == Append(d, [id |-> nid, obj |-> o])

\* self.nodes[node_id] = node: a new key goes last, an existing key keeps
\* its place and gets the new value
DictSet(d, nid, o) ==
    IF \E i \in 1..Len(d) : d[i].id = nid
    THEN [i \in 1..Len(d) |-> IF d[i].id = nid THEN [id |-> nid, obj |-> o]
                                               ELSE d[i]]
    ELSE Append(d, [id |-> nid, obj |-> o])

\* The identifiers are names only: a new one is the first of NodeIds not
\* yet registered.
NewId(nid) ==
    \A k \in 1..Len(NodeIds) :
        NodeIds[k] = nid => \A j \in 1..(k - 1) : NodeIds[j] \in RegisteredIds

\* register_node refusing only above the cap
register_node_cap_off_by_one(nid) ==
    /\ program = "control"
    /\ nid \in RegisteredIds \/ NewId(nid)
    /\ IF Len(nodes) > MaxNodes
       THEN /\ reg_ret' = <<FALSE>>
            /\ UNCHANGED <<objvars, nodes>>
       ELSE /\ Cardinality(Objs) < MaxObjs
            /\ LET o == Cardinality(Objs) + 1 IN
               /\ node_id' = node_id @@ (o :> nid)
               /\ active_slots' = active_slots @@ (o :> 0)
               /\ mirror_count' = mirror_count @@ (o :> 0)
               /\ max_slots' = max_slots @@ (o :> MaxSlots)
               /\ nodes' = DictSet(nodes, nid, o)
            /\ reg_ret' = <<TRUE>>
    /\ UNCHANGED <<program, command_log, bc, servicevars>>

register_node(nid) ==
    /\ program = "control"
    /\ nid \in RegisteredIds \/ NewId(nid)
    /\ IF Len(nodes) >= MaxNodes
       THEN /\ reg_ret' = <<FALSE>>
            /\ UNCHANGED <<objvars, nodes>>
       ELSE /\ Cardinality(Objs) < MaxObjs
            /\ LET o == Cardinality(Objs) + 1 IN
               /\ node_id' = node_id @@ (o :> nid)
               /\ active_slots' = active_slots @@ (o :> 0)
               /\ mirror_count' = mirror_count @@ (o :> 0)
               /\ max_slots' = max_slots @@ (o :> MaxSlots)
               /\ nodes' = DictSet(nodes, nid, o)
            /\ reg_ret' = <<TRUE>>
    /\ UNCHANGED <<program, command_log, bc, servicevars>>

(* ---- process_command ------------------------------------------------- *)
\* the coroutines suspended in the work of process_command on object o
WorkingBc(o) == {i \in Broadcasts : bc[i].pc = "work" /\ bc[i].obj = o}
WorkingConn(o) == {c \in Conns : conn[c].pc = "work" /\ o = ServiceObj}
InFlight(o) == Cardinality(WorkingBc(o)) + Cardinality(WorkingConn(o))

\* process_command entering its work without counting the slot
Reserve_nothing(slots, o) == slots

\* self.active_slots += 1
Reserve(slots, o) == [slots EXCEPT ![o] = @ + 1]

\* finally: self.active_slots -= 1
Release(slots, o) == [slots EXCEPT ![o] = @ - 1]

\* the result dictionary reading active_slots after the slot is given back
ProcessedResult_after_release(o, command, slots) ==
    SuccessResult(node_id[o], command.action, slots[o] - 1, max_slots[o])

\* the result dictionary built after the work, read while the slot is held
ProcessedResult(o, command, slots) ==
    SuccessResult(node_id[o], command.action, slots[o], max_slots[o])

\* the return value of a rejected process_command
RejectedResult(o) == ErrorResult(node_id[o], LimitError)

\* process_command taking the slot before it checks the limits
process_command_enter_reserve_first(o, command, slots) ==
    IF ~can_process(command, slots[o], mirror_count[o], max_slots[o])
    THEN [admitted |-> FALSE, slots |-> Reserve(slots, o)]
    ELSE [admitted |-> TRUE, slots |-> Reserve(slots, o)]

\* process_command from its call to its first suspension or its return:
\* rejected (it returns RejectedResult at once), or admitted with the slot
\* taken (it is suspended in the work)
process_command_enter(o, command, slots) ==
    IF ~can_process(command, slots[o], mirror_count[o], max_slots[o])
    THEN [admitted |-> FALSE, slots |-> slots]
    ELSE [admitted |-> TRUE, slots |-> Reserve(slots, o)]

(* ---- broadcast_command ----------------------------------------------- *)
LogEntry(command, nid, result) ==
    [command |-> command, node |-> nid, result |-> result]

\* broadcast_command without its pre-filter
HasHeadroom_always(o, slots) == TRUE

\* broadcast_command's pre-filter
HasHeadroom(o, slots) == slots[o] < max_slots[o]

\* The frame of a broadcast_command that has returned its results or has
\* raised exc; results is then the list as far as it was built.
Ended(b, pc, exc) ==
    [IdleBc EXCEPT !.pc = pc, !.exc = exc, !.command = b.command,
                   !.results = b.results]

\* The for loop of broadcast_command from the dictionary iterator's next
\* position on, run until process_command suspends in its work, the
\* iterator is exhausted, or the iterator finds the dictionary resized.
\* A rejecting process_command returns without suspending, so the loop
\* goes on in the same step.
RECURSIVE broadcast_loop(_, _, _, _)
broadcast_loop(b, pos, slots, log) ==
    IF b.used # Len(nodes)
    THEN [b |-> Ended(b, "raised", "RuntimeError"),
          slots |-> slots, log |-> log]
    ELSE IF pos > Len(nodes)
    THEN [b |-> Ended(b, "returned", None), slots |-> slots, log |-> log]
    ELSE LET nid == nodes[pos].id
             o == nodes[pos].obj
             e == process_command_enter(o, b.command, slots)
         IN IF ~HasHeadroom(o, slots)
            THEN broadcast_loop(b, pos + 1, slots, log)
            ELSE IF ~e.admitted
            THEN broadcast_loop(
                     [b EXCEPT !.results = Append(@, RejectedResult(o))],
                     pos + 1, e.slots,
                     Append(log, LogEntry(b.command, nid, RejectedResult(o))))
            ELSE [b |-> [b EXCEPT !.pc = "work", !.pos = pos, !.obj = o,
                                  !.before = slots[o],
                                  !.others = InFlight(o)],
                  slots |-> e.slots, log |-> log]

\* broadcast_command called: up to the first suspension.  The calls are
\* numbered in the order they are made.
broadcast_command(i, command) ==
    /\ program = "control"
    /\ bc[i].pc = "idle"
    /\ \A j \in Broadcasts : j < i => bc[j].pc # "idle"
    /\ LET r == broadcast_loop([IdleBc EXCEPT !.command = command,
                                              !.used = Len(nodes)],
                               1, active_slots, command_log)
       IN /\ bc' = [bc EXCEPT ![i] = r.b]
          /\ active_slots' = r.slots
          /\ command_log' = r.log
    /\ UNCHANGED <<program, node_id, mirror_count, max_slots, nodes, reg_ret,
                   servicevars>>

\* broadcast_command putting a result at the head of its list
broadcast_work_ok_prepend(i) ==
    /\ program = "control"
    /\ bc[i].pc = "work"
    /\ LET b == bc[i]
           o == b.obj
           result == ProcessedResult(o, b.command, active_slots)
           r == broadcast_loop(
                    [b EXCEPT !.results = <<result>> \o @],
                    b.pos + 1, Release(active_slots, o),
                    Append(command_log,
                           LogEntry(b.command, nodes[b.pos].id, result)))
       IN /\ bc' = [bc EXCEPT ![i] = r.b]
          /\ active_slots' = r.slots
          /\ command_log' = r.log
    /\ UNCHANGED <<program, node_id, mirror_count, max_slots, nodes, reg_ret,
                   servicevars>>

\* broadcast_command going to the next node with the slot of the previous
\* one still held
broadcast_work_ok_holds_slot(i) ==
    /\ program = "control"
    /\ bc[i].pc = "work"
    /\ LET b == bc[i]
           o == b.obj
           result == ProcessedResult(o, b.command, active_slots)
           r == broadcast_loop(
                    [b EXCEPT !.results = Append(@, result)],
                    b.pos + 1, active_slots,
                    Append(command_log,
                           LogEntry(b.command, nodes[b.pos].id, result)))
       IN /\ bc' = [bc EXCEPT ![i] = r.b]
          /\ active_slots' = r.slots
          /\ command_log' = r.log
    /\ UNCHANGED <<program, node_id, mirror_count, max_slots, nodes, reg_ret,
                   servicevars>>

\* the work of the node a broadcast waits on completes: process_command
\* returns its result, the broadcast records it and goes on with the loop
broadcast_work_ok(i) ==
    /\ program = "control"
    /\ bc[i].pc = "work"
    /\ LET b == bc[i]
           o == b.obj
           result == ProcessedResult(o, b.command, active_slots)
           r == broadcast_loop(
                    [b EXCEPT !.results = Append(@, result)],
                    b.pos + 1, Release(active_slots, o),
                    Append(command_log,
                           LogEntry(b.command, nodes[b.pos].id, result)))
       IN /\ bc' = [bc EXCEPT ![i] = r.b]
          /\ active_slots' = r.slots
          /\ command_log' = r.log
    /\ UNCHANGED <<program, node_id, mirror_count, max_slots, nodes, reg_ret,
                   servicevars>>

\* process_command without its finally clause
broadcast_work_raise_no_finally(i) ==
    /\ program = "control"
    /\ bc[i].pc = "work"
    /\ bc' = [bc EXCEPT ![i] = Ended(bc[i], "raised", WorkError)]
    /\ UNCHANGED <<program, objvars, nodes, command_log, reg_ret,
                   servicevars>>

\* the work raises: PublicControlNode.process_command has a finally and no
\* except, so the exception leaves process_command and broadcast_command
broadcast_work_raise(i) ==
    /\ program = "control"
    /\ bc[i].pc = "work"
    /\ bc' = [bc EXCEPT ![i] = Ended(bc[i], "raised", WorkError)]
    /\ active_slots' = Release(active_slots, bc[i].obj)
    /\ UNCHANGED <<program, node_id, mirror_count, max_slots, nodes,
                   command_log, reg_ret, servicevars>>

(* ---- get_status ------------------------------------------------------ *)
\* sum(f(node) for node in self.nodes.values())
RECURSIVE SumValues(_, _)
SumValues(d, f) ==
    IF d = <<>> THEN 0 ELSE f[Head(d).obj] + SumValues(Tail(d), f)

\* total_slots / max_slots * 100 without the test for max_slots > 0
utilization_unguarded(total_slots, maxs) ==
    IF maxs = 0
    THEN [fault |-> "ZeroDivisionError", num |-> 0, den |-> 1]
    ELSE [fault |-> None, num |-> total_slots * 100, den |-> maxs]

\* (total_slots / max_slots * 100) if max_slots > 0 else 0, the quotient
\* kept as num / den; fault is the exception the expression raises
utilization(total_slots, maxs) ==
    IF maxs > 0
    THEN [fault |-> None, num |-> total_slots * 100, den |-> maxs]
    ELSE [fault |-> None, num |-> 0, den |-> 1]

get_status ==
    LET total_slots == SumValues(nodes, active_slots)
        maxs == SumValues(nodes, max_slots)
        u == utilization(total_slots, maxs)
    IN [fault |-> u.fault,
        tier |-> "PUBLIC",
        total_nodes |-> Len(nodes),
        active_slots |-> total_slots,
        max_slots |-> maxs,
        utilization |-> <<u.num, u.den>>,
        allowed_models |-> IF nodes # <<>> THEN allowed_models ELSE {}]

(* ---- PublicNodeService --------------------------------------------- *)
\* inbound messages: a JSON object (a command), JSON that is not an object
\* (command.get raises AttributeError), or text that is not JSON
Malformed == [kind |-> "malformed", action |-> None, model |-> None]
NonObject == [kind |-> "nonobject", action |-> None, model |-> None]
Messages == {[kind |-> "object", action |-> c.action, model |-> c.model] :
                 c \in Commands}
            \cup {Malformed, NonObject}
NoMessage == [kind |-> None, action |-> None, model |-> None]

\* json.loads: the command a JSON object carries
json_loads(m) == [action |-> m.action, model |-> m.model]
InvalidJson == "Invalid JSON"
AttrError == "AttributeError"

LogKeep == LogCap \div 2

LastN(s, n) == IF Len(s) <= n THEN s ELSE SubSeq(s, Len(s) - n + 1, Len(s))

\* log_message without the truncation
log_message_keep_all(log, msg_type, content) ==
    Append(log, [type |-> msg_type, content |-> content])

log_message(log, msg_type, content) ==
    LET appended == Append(log, [type |-> msg_type, content |-> content])
    IN IF Len(appended) > LogCap THEN LastN(appended, LogKeep) ELSE appended

\* self.connections.remove(websocket)
ListRemove(l, x) == SelectSeq(l, LAMBDA y : y # x)

NoReply == ErrorResponse(None, None)

RECURSIVE SumLen(_, _)
SumLen(f, S) ==
    IF S = {} THEN 0
    ELSE LET x == CHOOSE y \in S : TRUE IN Len(f[x].inbox) + SumLen(f, S \ {x})

\* inbound messages so far
Received == SumLen(conn, Conns)

\* A handle_connection coroutine: its program counter, the message it is
\* handling, the reply it is sending, and as history the messages received
\* and the replies sent, and before and others as for a broadcast.
NewConn == [pc |-> "new", msg |-> NoMessage, reply |-> NoReply,
            inbox |-> <<>>, outbox |-> <<>>, before |-> 0, others |-> 0]

\* a connection is accepted: handle_connection runs up to the wait for the
\* first message.  The connections are numbered in the order they are
\* accepted.
handle_connection(c) ==
    /\ program = "node"
    /\ conn[c].pc = "new"
    /\ \A d \in Conns : d < c => conn[d].pc # "new"
    /\ connections' = Append(connections, c)
    /\ conn' = [conn EXCEPT ![c].pc = "recv"]
    /\ UNCHANGED <<program, objvars, planevars, message_log>>

\* the loop body leaving the loop on text that is not JSON
conn_message_malformed_closes(c, m) ==
    /\ program = "node"
    /\ conn[c].pc = "recv"
    /\ Received < MaxMsgs
    /\ LET o == ServiceObj
           got == [conn[c] EXCEPT !.msg = m, !.inbox = Append(@, m)]
           e == process_command_enter(o, json_loads(m), active_slots)
       IN IF m = Malformed
          THEN /\ conn' = [conn EXCEPT ![c] =
                     [got EXCEPT !.pc = "closed", !.msg = NoMessage]]
               /\ connections' = ListRemove(connections, c)
               /\ UNCHANGED <<message_log, active_slots>>
          ELSE IF m = NonObject
          THEN /\ message_log' = log_message(message_log, "RECEIVED", json_loads(m))
               /\ conn' = [conn EXCEPT ![c] =
                     [got EXCEPT !.pc = "send",
                                 !.reply = ErrorResponse(node_id[o], AttrError)]]
               /\ UNCHANGED <<active_slots, connections>>
          ELSE IF ~e.admitted
          THEN /\ message_log' =
                     log_message(log_message(message_log, "RECEIVED",
                                             json_loads(m)),
                                 "RESPONSE", RejectedResult(o))
               /\ conn' = [conn EXCEPT ![c] =
                     [got EXCEPT !.pc = "send", !.reply = RejectedResult(o)]]
               /\ active_slots' = e.slots
               /\ UNCHANGED connections
          ELSE /\ message_log' = log_message(message_log, "RECEIVED",
                                             json_loads(m))
               /\ active_slots' = e.slots
               /\ conn' = [conn EXCEPT ![c] =
                     [got EXCEPT !.pc = "work", !.before = active_slots[o],
                                 !.others = InFlight(o)]]
               /\ UNCHANGED connections
    /\ UNCHANGED <<program, node_id, mirror_count, max_slots, planevars>>

\* a message arrives: the loop body runs up to its next suspension, in the
\* work of an admitted command or in websocket.send
conn_message(c, m) ==
    /\ program = "node"
    /\ conn[c].pc = "recv"
    /\ Received < MaxMsgs
    /\ LET o == ServiceObj
           got == [conn[c] EXCEPT !.msg = m, !.inbox = Append(@, m)]
           e == process_command_enter(o, json_loads(m), active_slots)
       IN IF m = Malformed
          THEN /\ conn' = [conn EXCEPT ![c] =
                     [got EXCEPT !.pc = "send",
                                 !.reply = ErrorResponse(node_id[o], InvalidJson)]]
               /\ UNCHANGED <<message_log, active_slots>>
          ELSE IF m = NonObject
          THEN /\ message_log' = log_message(message_log, "RECEIVED", json_loads(m))
               /\ conn' = [conn EXCEPT ![c] =
                     [got EXCEPT !.pc = "send",
                                 !.reply = ErrorResponse(node_id[o], AttrError)]]
               /\ UNCHANGED active_slots
          ELSE IF ~e.admitted
          THEN /\ message_log' =
                     log_message(log_message(message_log, "RECEIVED",
                                             json_loads(m)),
                                 "RESPONSE", RejectedResult(o))
               /\ conn' = [conn EXCEPT ![c] =
                     [got EXCEPT !.pc = "send", !.reply = RejectedResult(o)]]
               /\ active_slots' = e.slots
          ELSE /\ message_log' = log_message(message_log, "RECEIVED",
                                             json_loads(m))
               /\ active_slots' = e.slots
               /\ conn' = [conn EXCEPT ![c] =
                     [got EXCEPT !.pc = "work", !.before = active_slots[o],
                                 !.others = InFlight(o)]]
    /\ UNCHANGED <<program, node_id, mirror_count, max_slots, planevars,
                   connections>>

\* the work completes: process_command builds, logs and returns the result,
\* releasing the slot; the loop logs the response and starts sending it
conn_work_ok(c) ==
    /\ program = "node"
    /\ conn[c].pc = "work"
    /\ LET o == ServiceObj
           result == ProcessedResult(o, json_loads(conn[c].msg), active_slots)
       IN /\ message_log' =
                log_message(log_message(message_log, "PROCESSED", result),
                            "RESPONSE", result)
          /\ active_slots' = Release(active_slots, o)
          /\ conn' = [conn EXCEPT ![c].pc = "send", ![c].reply = result]
    /\ UNCHANGED <<program, node_id, mirror_count, max_slots, planevars,
                   connections>>

\* process_command's except clause returning with the slot still held
conn_work_raise_keeps_slot(c) ==
    /\ program = "node"
    /\ conn[c].pc = "work"
    /\ LET o == ServiceObj
           error_result == ErrorResult(node_id[o], WorkError)
       IN /\ message_log' =
                log_message(log_message(message_log, "ERROR", error_result),
                            "RESPONSE", error_result)
          /\ conn' = [conn EXCEPT ![c].pc = "send", ![c].reply = error_result]
    /\ UNCHANGED <<program, objvars, planevars, connections>>

\* the work raises: PublicNodeService.process_command catches the
\* exception, logs and returns an error result, releasing the slot
conn_work_raise(c) ==
    /\ program = "node"
    /\ conn[c].pc = "work"
    /\ LET o == ServiceObj
           error_result == ErrorResult(node_id[o], WorkError)
       IN /\ message_log' =
                log_message(log_message(message_log, "ERROR", error_result),
                            "RESPONSE", error_result)
          /\ active_slots' = Release(active_slots, o)
          /\ conn' = [conn EXCEPT ![c].pc = "send", ![c].reply = error_result]
    /\ UNCHANGED <<program, node_id, mirror_count, max_slots, planevars,
                   connections>>

\* the reply going out twice
conn_sent_twice(c) ==
    /\ program = "node"
    /\ conn[c].pc = "send"
    /\ conn' = [conn EXCEPT ![c].pc = "recv",
                            ![c].outbox = Append(Append(@, conn[c].reply),
                                                 conn[c].reply),
                            ![c].msg = NoMessage, ![c].reply = NoReply]
    /\ UNCHANGED <<program, objvars, planevars, message_log, connections>>

\* websocket.send returns: the reply is on the wire, the loop waits for the
\* next message
conn_sent(c) ==
    /\ program = "node"
    /\ conn[c].pc = "send"
    /\ conn' = [conn EXCEPT ![c].pc = "recv", ![c].outbox = Append(@, conn[c].reply),
                            ![c].msg = NoMessage, ![c].reply = NoReply]
    /\ UNCHANGED <<program, objvars, planevars, message_log, connections>>

\* websocket.send raises (the peer is gone): the except clause's own send
\* raises too, the exception leaves the loop and the finally clause runs
conn_send_fail(c) ==
    /\ program = "node"
    /\ conn[c].pc = "send"
    /\ conn' = [conn EXCEPT ![c].pc = "closed", ![c].msg = NoMessage, ![c].reply = NoReply]
    /\ connections' = ListRemove(connections, c)
    /\ UNCHANGED <<program, objvars, planevars, message_log>>

\* the peer closes while the loop waits: the loop ends, the finally runs
conn_close(c) ==
    /\ program = "node"
    /\ conn[c].pc = "recv"
    /\ conn' = [conn EXCEPT ![c].pc = "closed"]
    /\ connections' = ListRemove(connections, c)
    /\ UNCHANGED <<program, objvars, planevars, message_log>>

Init ==
    /\ program \in {"node", "control"}
    /\ nodes = <<>>
    /\ command_log = <<>>
    /\ reg_ret = <<>>
    /\ bc = [b \in Broadcasts |-> IdleBc]
    /\ message_log = <<>>
    /\ connections = <<>>
    /\ conn = [c \in Conns |-> NewConn]
    /\ IF program = "node"
       THEN /\ node_id = (ServiceObj :> ServiceId)
            /\ active_slots = (ServiceObj :> 0)
            /\ mirror_count = (ServiceObj :> 0)
            /\ max_slots = (ServiceObj :> MaxSlots)
       ELSE /\ node_id = << >>
            /\ active_slots = << >>
            /\ mirror_count = << >>
            /\ max_slots = << >>

Next ==
    \/ \E k \in 1..Len(NodeIds) : register_node(NodeIds[k])
    \/ \E i \in Broadcasts, command \in Commands : broadcast_command(i, command)
    \/ \E i \in Broadcasts : broadcast_work_ok(i)
    \/ \E i \in Broadcasts : broadcast_work_raise(i)
    \/ \E c \in Conns : handle_connection(c)
    \/ \E c \in Conns, m \in Messages : conn_message(c, m)
    \/ \E c \in Conns : conn_work_ok(c)
    \/ \E c \in Conns : conn_work_raise(c)
    \/ \E c \in Conns : conn_sent(c)
    \/ \E c \in Conns : conn_send_fail(c)
    \/ \E c \in Conns : conn_close(c)

(* ---- properties ------------------------------------------------------ *)
FinishBc(i) == bc[i].pc = "work" /\ bc'[i] # bc[i]
FinishConn(c) == conn[c].pc = "work" /\ conn'[c] # conn[c]
\* the units of work in flight on object o after the step
InFlightNext(o) ==
    Cardinality({i \in Broadcasts : bc'[i].pc = "work" /\ bc'[i].obj = o})
    + Cardinality({c \in Conns : conn'[c].pc = "work" /\ o = ServiceObj})

\* C1: on every node, active_slots and the number of admitted, not yet
\* released units of work never exceed max_slots.
SlotsNeverExceedMax ==
    \A o \in Objs : /\ active_slots[o] <= max_slots[o]
                    /\ InFlight(o) <= max_slots[o]

\* a command with an allowed model was turned away while another
\* connection's work held the node's last slot
SlotsExhaustedReached ==
    /\ program = "node"
    /\ active_slots[ServiceObj] = max_slots[ServiceObj]
    /\ \E c, d \in Conns :
          /\ conn[c].pc = "work"
          /\ conn[d].pc = "send"
          /\ conn[d].msg.model \in allowed_models
          /\ conn[d].reply = ErrorResult(ServiceId, LimitError)

\* C2: the step that ends the work of an admitted process_command, by
\* completion or by the work raising, gives the slot back; when no other
\* unit of work was in flight on the node at the call and none is at the
\* end, active_slots is again what it was before the call.
SlotReleasedOnEveryExit ==
    [][/\ \A i \in Broadcasts : FinishBc(i) =>
            LET o == bc[i].obj IN
            /\ active_slots'[o] = active_slots[o] - 1
            /\ (bc[i].others = 0 /\ InFlightNext(o) = 0)
                   => active_slots'[o] = bc[i].before
       /\ \A c \in Conns : FinishConn(c) =>
            LET o == ServiceObj IN
            /\ active_slots'[o] = active_slots[o] - 1
            /\ (conn[c].others = 0 /\ InFlightNext(o) = 0)
                   => active_slots'[o] = conn[c].before]_vars

\* a broadcast ended by its work raising, and no slot is held any more
ReleasedAfterRaiseReached ==
    /\ \E i \in Broadcasts : bc[i].pc = "raised" /\ bc[i].exc = WorkError
    /\ Objs # {}
    /\ \A o \in Objs : active_slots[o] = 0

\* C3: a command whose model is not allowed is refused by can_process
\* whatever active_slots and mirror_count are, and process_command answers
\* it with the 'Public tier limit exceeded' error: it is never in its work.
DisallowedModelRejected ==
    /\ \A command \in Commands, a \in 0..(MaxSlots + 1),
          m \in 0..(MaxMirrors + 1), maxs \in 0..(MaxSlots + 1) :
          command.model \notin allowed_models
              => ~can_process(command, a, m, maxs)
    /\ \A c \in Conns :
          (conn[c].msg.kind = "object"
               /\ conn[c].msg.model \notin allowed_models)
              => /\ conn[c].pc = "send"
                 /\ conn[c].reply = ErrorResult(ServiceId, LimitError)
    /\ \A i \in Broadcasts :
          (bc[i].pc # "idle" /\ bc[i].command.model \notin allowed_models)
              => /\ bc[i].pc # "work"
                 /\ \A k \in 1..Len(bc[i].results) :
                       bc[i].results[k].error = LimitError

\* a broadcast of a disallowed model returned an error from each of two
\* nodes with free slots
DisallowedModelReached ==
    \E i \in Broadcasts :
        /\ bc[i].pc = "returned"
        /\ bc[i].command.model \notin allowed_models
        /\ Len(bc[i].results) = 2

\* C4: a process_command that is rejected (model not allowed, no free slot,
\* mirror quota reached) returns the error result in the step it is called
\* in, without entering the work, and active_slots and mirror_count are
\* left as they were.
RejectionLeavesLedger ==
    [][/\ \A c \in Conns :
            (/\ conn[c].pc = "recv"
             /\ conn'[c].pc \in {"work", "send"}
             /\ conn'[c].msg.kind = "object"
             /\ \/ conn'[c].msg.model \notin allowed_models
                \/ active_slots[ServiceObj] >= max_slots[ServiceObj]
                \/ /\ conn'[c].msg.action = "mirror"
                   /\ mirror_count[ServiceObj] >= MaxMirrors)
            => /\ conn'[c].pc = "send"
               /\ conn'[c].reply = ErrorResult(ServiceId, LimitError)
               /\ active_slots' = active_slots
               /\ mirror_count' = mirror_count
       /\ \A i \in Broadcasts :
            (/\ bc[i].pc = "idle"
             /\ bc'[i].pc # "idle"
             /\ bc'[i].command.model \notin allowed_models)
            => /\ bc'[i].pc # "work"
               /\ active_slots' = active_slots
               /\ mirror_count' = mirror_count]_vars

\* a command of a disallowed model was rejected while another connection's
\* work was in flight
RejectedWhileBusyReached ==
    /\ program = "node"
    /\ active_slots[ServiceObj] = 1
    /\ \E c, d \in Conns :
          /\ conn[c].pc = "work"
          /\ conn[d].pc = "send"
          /\ conn[d].msg.model \notin allowed_models
          /\ conn[d].msg.kind = "object"
          /\ conn[d].reply = ErrorResult(ServiceId, LimitError)

\* the entries a step adds to the result list of broadcast i for node nid
NewEntries(i, nid) ==
    Cardinality({k \in (Len(bc[i].results) + 1)..Len(bc'[i].results) :
                    bc'[i].results[k].node = nid})
\* the registry positions the iteration of broadcast i reaches in a step
FirstReached(i) == IF bc[i].pc = "idle" THEN 1 ELSE bc[i].pos + 1
LastReached(i) ==
    IF bc'[i].pc = "work" THEN bc'[i].pos
    ELSE IF bc'[i].pc = "returned" THEN Len(nodes)
    ELSE 0

\* C5: a failure of the work of an admitted command never leaves
\* process_command: no broadcast_command ends with the work's exception,
\* and the node service answers the failure with an error result.
WorkFailureNeverPropagates ==
    /\ \A i \in Broadcasts : bc[i].exc # WorkError
    /\ \A c \in Conns :
          (conn[c].pc = "send" /\ conn[c].reply.error = WorkError)
              => conn[c].reply = ErrorResult(ServiceId, WorkError)

\* C6: when the iteration of a broadcast reaches a node that is at
\* capacity the node adds no entry to the result list and its active_slots
\* stays; every node it reaches with a free slot adds exactly one entry,
\* at once if it rejects the command and when its work ends if it admits.
PrefilterDecidesEntries ==
    [][\A i \in Broadcasts : bc'[i] # bc[i] =>
          /\ \A p \in FirstReached(i)..LastReached(i) :
                LET o == nodes[p].obj
                    nid == nodes[p].id
                IN IF active_slots[o] >= max_slots[o]
                   THEN /\ NewEntries(i, nid) = 0
                        /\ active_slots'[o] = active_slots[o]
                        /\ ~(bc'[i].pc = "work" /\ bc'[i].pos = p)
                   ELSE \/ NewEntries(i, nid) = 1
                        \/ bc'[i].pc = "work" /\ bc'[i].pos = p
          /\ FinishBc(i) => NewEntries(i, nodes[bc[i].pos].id) = 1]_vars

\* C7: every process_command call a broadcast makes, admitted or rejected,
\* adds one entry to command_log when it ends: the entry of a unit of work
\* that ends is the last but the rejections that follow it in the step.
EveryDispatchLogged ==
    [][\A i \in Broadcasts :
          /\ FinishBc(i) =>
                /\ Len(command_log') > Len(command_log)
                /\ command_log'[Len(command_log) + 1].node = nodes[bc[i].pos].id
                /\ command_log'[Len(command_log) + 1].command = bc[i].command
          /\ bc'[i] # bc[i] =>
                Len(command_log') - Len(command_log)
                    = Len(bc'[i].results) - Len(bc[i].results)
          /\ (bc[i].pc = "idle" /\ bc'[i].pc = "returned" /\ nodes = <<>>) =>
                bc'[i].results = <<>> /\ command_log' = command_log]_vars

\* C8: the registry never holds more than the cap; register_node at the
\* cap returns false and changes nothing, below the cap it returns true and
\* the registry holds a node just constructed under the identifier.
RegistryCapped ==
    [][/\ Len(nodes) <= MaxNodes
       /\ Len(nodes') <= MaxNodes
       /\ (program = "control" /\ bc' = bc) =>
             IF Len(nodes) >= MaxNodes
             THEN /\ nodes' = nodes
                  /\ reg_ret' = <<FALSE>>
                  /\ active_slots' = active_slots
             ELSE /\ reg_ret' = <<TRUE>>
                  /\ Len(nodes') \in {Len(nodes), Len(nodes) + 1}
                  /\ \E p \in 1..Len(nodes') :
                        /\ nodes'[p].obj \notin Objs
                        /\ active_slots'[nodes'[p].obj] = 0
                        /\ \A q \in 1..Len(nodes') :
                              q # p => \E r \in 1..Len(nodes) :
                                           nodes[r] = nodes'[q]]_vars

\* register_node refused on a full registry
RegistryFullRefused == Len(nodes) = MaxNodes /\ reg_ret = <<FALSE>>

MirrorCommand == [action |-> "mirror", model |-> "logos9.5"]

\* C9: mirror_count is 0 in every state, so not above max_mirrors, and a
\* mirror command of an allowed model is never rejected while the node has
\* a free slot: the node service admits it, and no broadcast of it gets an
\* error result.
MirrorQuotaNeverRejects ==
    [][/\ \A o \in Objs : mirror_count[o] = 0 /\ mirror_count[o] <= MaxMirrors
       /\ \A o \in DOMAIN mirror_count' : mirror_count'[o] = 0
       /\ \A c \in Conns :
             (/\ conn[c].pc = "recv"
              /\ conn'[c].pc \in {"work", "send"}
              /\ conn'[c].msg.kind = "object"
              /\ json_loads(conn'[c].msg) = MirrorCommand
              /\ active_slots[ServiceObj] < max_slots[ServiceObj])
             => conn'[c].pc = "work"
       /\ \A i \in Broadcasts :
             bc'[i].command = MirrorCommand
                 => \A k \in 1..Len(bc'[i].results) :
                       bc'[i].results[k].error = None]_vars

\* two mirror commands sent one after the other on a connection were both
\* processed
TwoMirrorsProcessed ==
    \E c \in Conns :
        /\ Len(conn[c].outbox) = 2
        /\ \A k \in 1..2 :
              /\ json_loads(conn[c].inbox[k]) = MirrorCommand
              /\ conn[c].outbox[k].error = None
              /\ conn[c].outbox[k].result = "mirror"

\* the sum of f over a set of objects
RECURSIVE SumOver(_, _)
SumOver(S, f) ==
    IF S = {} THEN 0
    ELSE LET x == CHOOSE y \in S : TRUE IN f[x] + SumOver(S \ {x}, f)

\* C10: in every state get_status raises nothing and reports the registry
\* size and the sums of active_slots and max_slots over the registered
\* nodes; utilization is 0 when the max_slots sum is 0.
StatusSumsLedgers ==
    /\ get_status.fault = None
    /\ get_status.total_nodes = Cardinality(RegisteredIds)
    /\ get_status.active_slots = SumOver(RegisteredObjs, active_slots)
    /\ get_status.max_slots = SumOver(RegisteredObjs, max_slots)
    /\ get_status.max_slots = 0 => get_status.utilization[1] = 0
    /\ nodes = <<>> => get_status.max_slots = 0

\* get_status with work in flight on one of two registered nodes
StatusWhileBusy ==
    /\ Len(nodes) = 2
    /\ get_status.active_slots = 1
    /\ get_status.max_slots = 2 * MaxSlots
    /\ \E i \in Broadcasts : bc[i].pc = "work"

\* C11: text that is not JSON is answered on the connection it came on
\* with the error object {error: 'Invalid JSON', node}; handling it leaves
\* active_slots, message_log and the connection list alone, and once the
\* answer is sent the connection waits for its next message.
MalformedAnswered ==
    [][\A c \in Conns :
          /\ (/\ Len(conn'[c].inbox) > Len(conn[c].inbox)
              /\ conn'[c].inbox[Len(conn'[c].inbox)] = Malformed)
             => /\ conn'[c].pc = "send"
                /\ conn'[c].reply = ErrorResponse(ServiceId, InvalidJson)
                /\ conn'[c].reply.node = node_id[ServiceObj]
                /\ active_slots' = active_slots
                /\ message_log' = message_log
                /\ connections' = connections
          /\ (/\ conn[c].pc = "send"
              /\ conn[c].msg = Malformed
              /\ Len(conn'[c].outbox) > Len(conn[c].outbox))
             => /\ conn'[c].pc = "recv"
                /\ conn'[c].outbox
                       = Append(conn[c].outbox,
                                ErrorResponse(ServiceId, InvalidJson))
                /\ connections' = connections
                /\ \E k \in 1..Len(connections) : connections[k] = c]_vars

\* a connection got the Invalid JSON answer to its first message and then
\* the result of the command it sent next
CommandAfterMalformedProcessed ==
    \E c \in Conns :
        /\ Len(conn[c].inbox) = 2
        /\ Len(conn[c].outbox) = 2
        /\ conn[c].inbox[1] = Malformed
        /\ conn[c].outbox[1] = ErrorResponse(ServiceId, InvalidJson)
        /\ conn[c].inbox[2].kind = "object"
        /\ conn[c].outbox[2].error = None
        /\ conn[c].outbox[2].result = conn[c].inbox[2].action
        /\ conn[c].pc = "recv"

\* the reply r is one that handling the message m can produce
Answers(m, r) ==
    IF m = Malformed THEN r = ErrorResponse(ServiceId, InvalidJson)
    ELSE IF m = NonObject THEN r = ErrorResponse(ServiceId, AttrError)
    ELSE IF m.model \notin allowed_models
    THEN r = ErrorResult(ServiceId, LimitError)
    ELSE \/ r = ErrorResult(ServiceId, LimitError)
         \/ r = ErrorResult(ServiceId, WorkError)
         \/ /\ r.error = None
            /\ r.node = ServiceId
            /\ r.result = m.action

\* C12: on every connection the replies sent are as many as the messages
\* received, less the one being handled; the k-th reply answers the k-th
\* message; a message is taken only when every earlier one has its reply
\* sent, so a connection has at most one unit of work in flight.
OneReplyPerMessageInOrder ==
    [][\A c \in Conns :
          /\ Len(conn[c].inbox) - Len(conn[c].outbox)
                 \in IF conn[c].pc \in {"work", "send"} THEN {1}
                     ELSE IF conn[c].pc = "closed" THEN {0, 1}
                     ELSE {0}
          /\ \A k \in 1..Len(conn[c].outbox) :
                Answers(conn[c].inbox[k], conn[c].outbox[k])
          /\ conn[c].pc \in {"work", "send"}
                => conn[c].msg = conn[c].inbox[Len(conn[c].inbox)]
          /\ conn[c].pc = "send"
                => Answers(conn[c].msg, conn[c].reply)
          /\ Len(conn'[c].inbox) > Len(conn[c].inbox)
                => /\ Len(conn'[c].inbox) = Len(conn[c].inbox) + 1
                   /\ Len(conn[c].outbox) = Len(conn[c].inbox)
                   /\ conn[c].pc = "recv"
          /\ Len(conn'[c].outbox) > Len(conn[c].outbox)
                => /\ conn'[c].outbox = Append(conn[c].outbox, conn[c].reply)
                   /\ conn[c].pc = "send"
                   /\ conn'[c].inbox = conn[c].inbox]_vars

\* one connection's command is in its work while another connection is
\* being sent the result of the command it had processed
ConnectionsInterleaveReached ==
    \E c, d \in Conns :
        /\ conn[c].pc = "work"
        /\ conn[d].pc = "send"
        /\ conn[d].reply.error = None
        /\ conn[d].reply.result = conn[d].msg.action

\* a unit of work enters its work on object o in the step
StartBc(i, o) ==
    /\ bc'[i].pc = "work"
    /\ bc'[i].obj = o
    /\ bc'[i] # bc[i]
StartConn(c, o) ==
    /\ o = ServiceObj
    /\ conn[c].pc # "work"
    /\ conn'[c].pc = "work"

\* C13: a slot is taken only in the step that admits a unit of work and
\* puts it in its work, one slot for the unit; it is given back only in
\* the step in which that work completes or fails, one slot for the unit,
\* after which the unit is no longer in its work; and, the work being
\* certain to complete or fail, every unit in its work gets there.
AdmittedWorkLifecycle ==
    /\ [][/\ \A o \in Objs :
                /\ active_slots'[o] > active_slots[o]
                      => /\ active_slots'[o] = active_slots[o] + 1
                         /\ \/ \E i \in Broadcasts : StartBc(i, o)
                            \/ \E c \in Conns : StartConn(c, o)
                /\ active_slots'[o] < active_slots[o]
                      => /\ active_slots'[o] = active_slots[o] - 1
                         /\ \/ \E i \in Broadcasts :
                                  FinishBc(i) /\ bc[i].obj = o
                            \/ \E c \in Conns :
                                  FinishConn(c) /\ o = ServiceObj
          /\ \A i \in Broadcasts :
                FinishBc(i)
                    => /\ active_slots'[bc[i].obj] = active_slots[bc[i].obj] - 1
                       /\ ~(bc'[i].pc = "work" /\ bc'[i].obj = bc[i].obj)
          /\ \A c \in Conns :
                FinishConn(c)
                    => /\ active_slots'[ServiceObj]
                              = active_slots[ServiceObj] - 1
                       /\ conn'[c].pc = "send"]_vars
    /\ \A i \in Broadcasts : (bc[i].pc = "work") ~> (bc[i].pc # "work")
    /\ \A c \in Conns : (conn[c].pc = "work") ~> (conn[c].pc # "work")

\* a connection had one command fail in its work and another complete, and
\* no slot is held
FailedAndCompletedReleased ==
    /\ program = "node"
    /\ active_slots[ServiceObj] = 0
    /\ \E c \in Conns, j, k \in 1..2 :
          /\ Len(conn[c].outbox) = 2
          /\ conn[c].outbox[j] = ErrorResult(ServiceId, WorkError)
          /\ conn[c].outbox[k].error = None
          /\ conn[c].outbox[k].slots_used = 1

\* the place of identifier nid in the iteration order of dictionary d
PosIn(d, nid) == CHOOSE p \in 1..Len(d) : d[p].id = nid

\* C14: the node identifiers of a broadcast's result list are registered
\* and stand in the list in the order the registry iterates them, each at
\* most once; the entries a step of the broadcast adds to command_log are
\* the results it adds to its list, in the same order.
ResultsInRegistryOrder ==
    [][\A i \in Broadcasts :
          LET res == bc'[i].results
              n == Len(command_log') - Len(command_log)
              r == Len(res) - Len(bc[i].results)
          IN /\ \A k \in 1..Len(res) :
                   \E p \in 1..Len(nodes') : nodes'[p].id = res[k].node
             /\ \A j, k \in 1..Len(res) :
                   j < k => PosIn(nodes', res[j].node)
                                < PosIn(nodes', res[k].node)
             /\ bc'[i] # bc[i] =>
                   /\ n = r
                   /\ SubSeq(res, 1, Len(bc[i].results)) = bc[i].results
                   /\ \A k \in 1..n :
                         LET entry == command_log'[Len(command_log) + k]
                             result == res[Len(bc[i].results) + k]
                         IN /\ entry.node = result.node
                            /\ entry.result = result
                            /\ entry.command = bc'[i].command]_vars

\* a broadcast returned the results of both registered nodes, the first
\* registered first, with an entry of another broadcast in command_log
TwoResultsInOrderReached ==
    \E i \in Broadcasts :
        /\ bc[i].pc = "returned"
        /\ Len(nodes) = 2
        /\ Len(bc[i].results) = 2
        /\ bc[i].results[1].node = nodes[1].id
        /\ bc[i].results[2].node = nodes[2].id
        /\ bc[i].results[1].error = None
        /\ bc[i].results[2].error = None
        /\ Len(command_log) = 3

\* the kinds of entry log_message is called with
MsgTypes == {"RECEIVED", "PROCESSED", "ERROR", "RESPONSE"}

\* C15: message_log is never longer than the cap; a log_message call on a
\* history below the cap appends its entry, and a call on a history at the
\* cap leaves exactly the LogKeep most recent entries, the older ones
\* dropped, the order kept and the new entry last.
MessageLogBounded ==
    /\ Len(message_log) <= LogCap
    /\ \A t \in MsgTypes, m \in Commands :
          LET entry == [type |-> t, content |-> m]
              after == log_message(message_log, t, m)
              n == Len(message_log)
          IN /\ Len(after) <= LogCap
             /\ after[Len(after)] = entry
             /\ IF n + 1 > LogCap
                THEN /\ Len(after) = LogKeep
                     /\ \A k \in 1..(LogKeep - 1) :
                           after[k] = message_log[n + 1 - LogKeep + k]
                ELSE /\ Len(after) = n + 1
                     /\ \A k \in 1..n : after[k] = message_log[k]

\* the history was cut: two messages were received, one of them processed
\* (three entries), and only the LogKeep most recent entries are left
MessageLogTruncatedReached ==
    /\ Received = 2
    /\ Len(message_log) = LogKeep
    /\ message_log[LogKeep].type = "RESPONSE"
    /\ \E c \in Conns, k \in 1..2 :
          /\ k <= Len(conn[c].outbox)
          /\ conn[c].outbox[k].error = None
          /\ conn[c].outbox[k].result # None

\* C16: on every node object, registered or replaced, active_slots is the
\* number of units of work admitted on it and not yet released; so it is
\* never negative, and 0 when no work is in flight on the object.
ActiveSlotsCountsInFlight ==
    \A o \in Objs :
        /\ active_slots[o] = InFlight(o)
        /\ active_slots[o] >= 0
        /\ InFlight(o) = 0 => active_slots[o] = 0

\* one node has a unit of work in flight and its slot counted, another
\* node that had a unit of work in flight has none and counts 0
CountedAndReleasedReached ==
    \E o, q \in Objs :
        /\ o # q
        /\ active_slots[o] = 1
        /\ InFlight(o) = 1
        /\ active_slots[q] = 0
        /\ \E i \in Broadcasts :
              /\ bc[i].pc = "returned"
              /\ \E k \in 1..Len(bc[i].results) :
                    /\ bc[i].results[k].node = node_id[q]
                    /\ bc[i].results[k].error = None

\* a success result whose slots_used is from 1 to its max_slots
WithinLimits(r) ==
    (r.error = None /\ r.result # None)
        => /\ 1 <= r.slots_used
           /\ r.slots_used <= r.max_slots
           /\ r.max_slots = MaxSlots

PrefilterPassNeverExhausted ==
    [][\A i \in Broadcasts :
          /\ \A k \in 1..Len(bc'[i].results) :
                bc'[i].results[k].error # None
                    => /\ bc'[i].results[k].error = LimitError
                       /\ bc'[i].command.model \notin allowed_models
          /\ bc'[i] # bc[i] =>
                \A p \in FirstReached(i)..LastReached(i) :
                    LET o == nodes[p].obj
                    IN (/\ active_slots[o] < max_slots[o]
                        /\ bc'[i].command.model \in allowed_models)
                       => /\ bc'[i].pc = "work"
                          /\ bc'[i].pos = p
                          /\ bc'[i].obj = o
                          /\ active_slots'[o] = active_slots[o] + 1]_vars

\* with another broadcast's work in flight on the first node, a broadcast
\* of a disallowed model skipped that node and returned the second node's
\* limit error
ErrorOnlyFromProfileReached ==
    \E i, j \in Broadcasts :
        /\ Len(nodes) = 2
        /\ bc[j].pc = "work"
        /\ bc[j].pos = 1
        /\ bc[i].pc = "returned"
        /\ bc[i].command.model \notin allowed_models
        /\ bc[i].results = <<ErrorResult(nodes[2].id, LimitError)>>

\* the step is a register_node call
RegisterStep == program = "control" /\ bc' = bc /\ command_log' = command_log

\* C19: register_node of a registered identifier below the cap returns
\* true and puts a node just constructed, with active_slots = 0, in the
\* identifier's place, the registry's size and order as before and the
\* replaced object untouched; at the cap it returns false and the registry
\* and the nodes stay.  Work in flight on a replaced object gives its slot
\* back to that object, and no active_slots is ever negative.
ReRegistrationReplaces ==
    [][/\ \A o \in DOMAIN active_slots' : active_slots'[o] >= 0
       /\ (RegisterStep /\ Len(nodes) >= MaxNodes)
             => /\ reg_ret' = <<FALSE>>
                /\ nodes' = nodes
                /\ active_slots' = active_slots
                /\ node_id' = node_id
       /\ (RegisterStep /\ Len(nodes) < MaxNodes)
             => \E n \in DOMAIN active_slots' :
                   /\ n \notin Objs
                   /\ DOMAIN active_slots' = Objs \cup {n}
                   /\ active_slots'[n] = 0
                   /\ mirror_count'[n] = 0
                   /\ max_slots'[n] = MaxSlots
                   /\ reg_ret' = <<TRUE>>
                   /\ \A o \in Objs : active_slots'[o] = active_slots[o]
                   /\ node_id'[n] \in RegisteredIds
                         => /\ Len(nodes') = Len(nodes)
                            /\ \A q \in 1..Len(nodes) :
                                  /\ nodes'[q].id = nodes[q].id
                                  /\ nodes'[q].obj
                                        = IF nodes[q].id = node_id'[n]
                                          THEN n ELSE nodes[q].obj
       /\ \A i \in Broadcasts :
             (FinishBc(i) /\ bc[i].obj \notin RegisteredObjs)
                 => /\ active_slots'[bc[i].obj] = active_slots[bc[i].obj] - 1
                    /\ \A q \in RegisteredObjs :
                          node_id[q] = node_id[bc[i].obj]
                              => active_slots'[q] = active_slots[q]]_vars

\* a node was replaced while a broadcast's work was in flight on it: the
\* replaced object holds the slot, the node registered in its place none
ReplacedWhileInFlightReached ==
    \E i \in Broadcasts, q \in RegisteredObjs :
        /\ bc[i].pc = "work"
        /\ bc[i].obj \notin RegisteredObjs
        /\ active_slots[bc[i].obj] = 1
        /\ node_id[q] = node_id[bc[i].obj]
        /\ active_slots[q] = 0
        /\ nodes[bc[i].pos].obj = q
        /\ reg_ret = <<TRUE>>

\* the broadcasts suspended in the work of some node
BroadcastsInWork == {i \in Broadcasts : bc[i].pc = "work"}

\* C20: a broadcast is in the work of at most one node at a time, and when
\* it goes from one node's work to the next node's the slot of the first
\* is given back in that step; so the slots held on all node objects
\* together are never more than the broadcasts in their work.
OneSlotPerBroadcast ==
    [][program = "control" =>
          /\ SumOver(Objs, active_slots) <= Cardinality(BroadcastsInWork)
          /\ SumOver(DOMAIN active_slots', active_slots')
                 <= Cardinality({i \in Broadcasts : bc'[i].pc = "work"})
          /\ \A i \in Broadcasts :
                (FinishBc(i) /\ bc'[i].pc = "work")
                    => /\ bc'[i].pos > bc[i].pos
                       /\ bc'[i].obj # bc[i].obj
                       /\ active_slots'[bc[i].obj]
                              = active_slots[bc[i].obj] - 1
                       /\ active_slots'[bc'[i].obj]
                              = active_slots[bc'[i].obj] + 1
                       /\ SumOver(DOMAIN active_slots', active_slots')
                              = SumOver(Objs, active_slots)]_vars

\* two broadcasts are in their work at once, one on each of two nodes, the
\* first of them having gone on from the first node to the second
TwoBroadcastsTwoSlotsReached ==
    \E i, j \in Broadcasts :
        /\ bc[i].pc = "work"
        /\ bc[j].pc = "work"
        /\ bc[i].pos = 2
        /\ bc[j].pos = 1
        /\ Len(bc[i].results) = 1
        /\ SumOver(Objs, active_slots) = 2

Spec == Init /\ [][Next]_vars

\* The work of an admitted command is asyncio.sleep(0.1): the event loop
\* resumes every coroutine suspended in it, which then completes or raises.
FairSpec ==
    /\ Spec
    /\ \A i \in Broadcasts :
          WF_vars(broadcast_work_ok(i) \/ broadcast_work_raise(i))
    /\ \A c \in Conns :
          WF_vars(conn_work_ok(c) \/ conn_work_raise(c))
====
